---- MODULE Spec2Model ----
(***************************************************************************)
(* A model of scripts/scrape_qiita.py: the link reader, the chunking       *)
(* translator and the concurrent fetch/translate/persist pipeline that     *)
(* main fans out over the links under the shared RATE_LIMIT limiter.       *)
(*                                                                         *)
(* Three specifications share the module's variables:                      *)
(*   Spec          main, process_link, fetch_html and the limiter          *)
(*   SpecTranslate translate_text on a bounded set of input texts          *)
(*   SpecLinks     read_links_from_docs_readme on bounded documents        *)
(* A specification keeps the variables of the other two at their idle      *)
(* values.                                                                 *)
(***************************************************************************)
EXTENDS Integers, Sequences, FiniteSets, TLC

VARIABLES
    \* ---- main / process_link / fetch_html ----
    links,      \* the list main got from read_links_from_docs_readme
    mainpc,     \* where main is: start, gathering, exiting, done, raised
    pc,         \* pc[i]: where the task of links[i] is
    running,    \* the task that holds the event loop's only thread (0: none)
    now,        \* the loop's clock, in ticks of TIME_PERIOD / MAX_RATE seconds
    level,      \* RATE_LIMIT._level, the leaky bucket's fill
    started,    \* started[i]: the tick at which client.get of task i began (-1: not yet)
    files,      \* the output directory: path -> content
    out,        \* what was printed
    clientOpen, \* the httpx.AsyncClient context is entered
    \* ---- translate_text ----
    text, backend, tpc, paragraphs, bi, chunks, ci,
    translated_chunk_list, translated_blocks, result, calls,
    \* ---- read_links_from_docs_readme ----
    doc, li, rlinks, origin, rpc

pvars == <<links, mainpc, pc, running, now, level, started, files, out, clientOpen>>
tvars == <<text, backend, tpc, paragraphs, bi, chunks, ci,
           translated_chunk_list, translated_blocks, result, calls>>
lvars == <<doc, li, rlinks, origin, rpc>>
vars == <<pvars, tvars, lvars>>

(***************************************************************************)
(* Bounds of the model.                                                    *)
(***************************************************************************)
MaxLinks == 3
MaxTime == 3

Max(a, b) == IF a >= b THEN a ELSE b

(***************************************************************************)
(* Strings are sequences of tokens.  In a URL the token "/" is the slash   *)
(* and every other token is a non-empty run of characters without one.     *)
(***************************************************************************)
SLASH == "/"

Urls ==
    { <<"https:", SLASH, SLASH, "example.com", SLASH, "items", SLASH, "abc123">>,
      <<"https:", SLASH, SLASH, "example.com", SLASH, "items", SLASH, "abc123", SLASH>>,
      <<"http:", SLASH, SLASH, "example.org", SLASH, "def456", SLASH, SLASH>> }

LinkItem(t, u, p) == [title |-> t, url |-> u, parent |-> p]

PipelineLinks == { LinkItem("Foo", u, "None") : u \in Urls }

\* str.rstrip("/")
RECURSIVE RStripSlash(_)
RStripSlash(s) ==
    IF s # <<>> /\ s[Len(s)] = SLASH THEN RStripSlash(SubSeq(s, 1, Len(s) - 1)) ELSE s

\* str.split("/")[-1]: what follows the last slash
RECURSIVE LastAfterSlash(_)
LastAfterSlash(s) ==
    IF s = <<>> \/ s[Len(s)] = SLASH THEN <<>>
    ELSE Append(LastAfterSlash(SubSeq(s, 1, Len(s) - 1)), s[Len(s)])

qiita_id_from_url_NoRstrip(url) == LastAfterSlash(url)

qiita_id_from_url(url) == LastAfterSlash(RStripSlash(url))

OUTPUT_DIR == <<"docs", SLASH>>

\* os.path.join(OUTPUT_DIR, f"qiita_{item_id}.md")
OutputPath(item_id) == OUTPUT_DIR \o <<"qiita_">> \o item_id \o <<".md">>

(***************************************************************************)
(* RATE_LIMIT = AsyncLimiter(2, 1): aiolimiter's leaky bucket of capacity  *)
(* max_rate that drains at max_rate / time_period per second.  A tick is   *)
(* the time one unit drains, so TIME_PERIOD seconds are MAX_RATE ticks.    *)
(***************************************************************************)
MAX_RATE == 2

\* AsyncLimiter.has_capacity(1), after the leak the clock has applied
HasCapacity == level + 1 <= MAX_RATE

Tasks == 1 .. Len(links)

NoLinksMsg == [kind |-> "nolinks", path |-> <<>>]
SavedMsg(p) == [kind |-> "saved", path |-> p]

(***************************************************************************)
(* Idle values of the other specifications' variables.                     *)
(***************************************************************************)
IdleP ==
    /\ links = <<>> /\ mainpc = "idle" /\ pc = <<>> /\ running = 0
    /\ now = 0 /\ level = 0 /\ started = <<>> /\ files = <<>>
    /\ out = <<>> /\ clientOpen = FALSE

IdleT ==
    /\ text = <<>> /\ backend = "none" /\ tpc = "idle" /\ paragraphs = <<>>
    /\ bi = 0 /\ chunks = <<>> /\ ci = 0 /\ translated_chunk_list = <<>>
    /\ translated_blocks = <<>> /\ result = <<>> /\ calls = <<>>

IdleL ==
    /\ doc = <<>> /\ li = 0 /\ rlinks = <<>> /\ origin = <<>> /\ rpc = "idle"

(***************************************************************************)
(* main, process_link, fetch_html                                          *)
(***************************************************************************)
Init ==
    /\ links \in UNION { [1 .. n -> PipelineLinks] : n \in 0 .. MaxLinks }
    /\ mainpc = "start"
    /\ pc = [i \in 1 .. Len(links) |-> "none"]
    /\ running = 0
    /\ now = 0
    /\ level = 0
    /\ started = [i \in 1 .. Len(links) |-> -1]
    /\ files = <<>>
    /\ out = <<>>
    /\ clientOpen = FALSE
    /\ IdleT /\ IdleL

\* main, lines 171-174 without the print
MainStart_NoMessage ==
    /\ mainpc = "start"
    /\ IF links = <<>>
       THEN /\ mainpc' = "done"
            /\ UNCHANGED <<pc, clientOpen, out>>
       ELSE /\ clientOpen' = TRUE
            /\ pc' = [i \in Tasks |-> "new"]
            /\ mainpc' = "gathering"
            /\ UNCHANGED out
    /\ UNCHANGED <<links, running, now, level, started, files>>
    /\ UNCHANGED <<tvars, lvars>>

\* main up to its await of asyncio.gather
MainStart ==
    /\ mainpc = "start"
    /\ IF links = <<>>
       THEN /\ out' = Append(out, NoLinksMsg)
            /\ mainpc' = "done"
            /\ UNCHANGED <<pc, clientOpen>>
       ELSE /\ clientOpen' = TRUE
            /\ pc' = [i \in Tasks |-> "new"]
            /\ mainpc' = "gathering"
            /\ UNCHANGED out
    /\ UNCHANGED <<links, running, now, level, started, files>>
    /\ UNCHANGED <<tvars, lvars>>

NoneNew == \A j \in Tasks : pc[j] # "new"

\* the limiter admits task i: its client.get starts
Admit(i) ==
    /\ level' = level + 1
    /\ started' = [started EXCEPT ![i] = now]
    /\ pc' = [pc EXCEPT ![i] = "fetching"]

\* the first run of task i, to its first suspension inside fetch_html; the
\* loop runs the tasks gather created in their order
TaskStart(i) ==
    /\ pc[i] = "new"
    /\ running = 0
    /\ \A j \in Tasks : j < i => pc[j] # "new"
    /\ IF HasCapacity
       THEN Admit(i)
       ELSE /\ pc' = [pc EXCEPT ![i] = "waiting"]
            /\ UNCHANGED <<level, started>>
    /\ UNCHANGED <<links, mainpc, running, now, files, out, clientOpen>>
    /\ UNCHANGED <<tvars, lvars>>

\* a task suspended in RATE_LIMIT.acquire wakes and finds capacity
Acquire(i) ==
    /\ pc[i] = "waiting"
    /\ running = 0
    /\ NoneNew
    /\ HasCapacity
    /\ Admit(i)
    /\ UNCHANGED <<links, mainpc, running, now, files, out, clientOpen>>
    /\ UNCHANGED <<tvars, lvars>>

\* client.get returns to task i, which then runs without an await up to its
\* first call of the translation backend (ok), or raises (not ok)
FetchReturn(i, ok) ==
    /\ pc[i] = "fetching"
    /\ running = 0
    /\ NoneNew
    /\ IF ok
       THEN /\ pc' = [pc EXCEPT ![i] = "tr_title"]
            /\ running' = i
            /\ UNCHANGED mainpc
       ELSE /\ pc' = [pc EXCEPT ![i] = "failed"]
            /\ mainpc' = IF mainpc = "gathering" THEN "exiting" ELSE mainpc
            /\ UNCHANGED running
    /\ UNCHANGED <<links, now, level, started, files, out, clientOpen>>
    /\ UNCHANGED <<tvars, lvars>>

\* translate_text(ja_title) returns; translate_text(md_text) is called
TranslateTitleReturn(i) ==
    /\ pc[i] = "tr_title"
    /\ running = i
    /\ pc' = [pc EXCEPT ![i] = "tr_body"]
    /\ UNCHANGED <<links, mainpc, running, now, level, started, files, out, clientOpen>>
    /\ UNCHANGED <<tvars, lvars>>

\* open(output_path, "w") and the writes
WriteFile(path, content) ==
    files' = [p \in DOMAIN files \cup {path} |-> IF p = path THEN content ELSE files[p]]

\* translate_text(md_text) returns; the file is written and the task ends
TranslateBodyReturn(i) ==
    /\ pc[i] = "tr_body"
    /\ running = i
    /\ LET item_id == qiita_id_from_url(links[i].url)
           output_path == OutputPath(item_id)
       IN /\ WriteFile(output_path, [source |-> links[i].url, source_id |-> item_id])
          /\ out' = Append(out, SavedMsg(output_path))
    /\ pc' = [pc EXCEPT ![i] = "done"]
    /\ running' = 0
    /\ UNCHANGED <<links, mainpc, now, level, started, clientOpen>>
    /\ UNCHANGED <<tvars, lvars>>

\* gather returns: every task is done
MainReturn ==
    /\ mainpc = "gathering"
    /\ running = 0
    /\ \A i \in Tasks : pc[i] = "done"
    /\ clientOpen' = FALSE
    /\ mainpc' = "done"
    /\ UNCHANGED <<links, pc, running, now, level, started, files, out>>
    /\ UNCHANGED <<tvars, lvars>>

\* gather re-raises the first exception in main: the client context exits,
\* main raises, and asyncio.run cancels every task still pending
MainRaise ==
    /\ mainpc = "exiting"
    /\ running = 0
    /\ clientOpen' = FALSE
    /\ pc' = [i \in Tasks |-> IF pc[i] \in {"waiting", "fetching"} THEN "cancelled" ELSE pc[i]]
    /\ mainpc' = "raised"
    /\ UNCHANGED <<links, running, now, level, started, files, out>>
    /\ UNCHANGED <<tvars, lvars>>

\* the clock advances one tick; the bucket drains one unit (AsyncLimiter._leak)
Tick ==
    /\ mainpc \in {"gathering", "exiting"}
    /\ NoneNew
    /\ now < MaxTime
    /\ now' = now + 1
    /\ level' = Max(level - 1, 0)
    /\ UNCHANGED <<links, mainpc, pc, running, started, files, out, clientOpen>>
    /\ UNCHANGED <<tvars, lvars>>

Next ==
    \/ MainStart
    \/ \E i \in Tasks : TaskStart(i)
    \/ \E i \in Tasks : Acquire(i)
    \/ \E i \in Tasks, ok \in BOOLEAN : FetchReturn(i, ok)
    \/ \E i \in Tasks : TranslateTitleReturn(i)
    \/ \E i \in Tasks : TranslateBodyReturn(i)
    \/ MainReturn
    \/ MainRaise
    \/ Tick

Spec == Init /\ [][Next]_vars

(***************************************************************************)
(* Claims about main, process_link and fetch_html (specification Spec).    *)
(***************************************************************************)

\* TIME_PERIOD (1 second) in ticks
WindowTicks == MAX_RATE

StartedIn(t) == { i \in Tasks : started[i] >= t /\ started[i] < t + WindowTicks }

\* C1: across all the instances that share RATE_LIMIT, no rolling 1-second
\* window contains more than 2 starts of client.get.
C1_AtMostTwoPerWindow ==
    \A t \in 0 .. MaxTime : Cardinality(StartedIn(t)) <= MAX_RATE

\* C2: a failed fetch aborts only its own instance: no instance is cancelled
\* or otherwise stopped because a sibling failed, so when main is over every
\* instance has written its file or has failed on its own.
C2_SiblingsUnaffected ==
    /\ \A i \in Tasks : pc[i] # "cancelled"
    /\ mainpc \in {"done", "raised"} => \A i \in Tasks : pc[i] \in {"done", "failed"}

\* the last maximal run of tokens of url that holds no slash
LastNonEmptySegment(url) ==
    LET nonSlash == { k \in DOMAIN url : url[k] # SLASH }
        e == CHOOSE k \in nonSlash : \A m \in nonSlash : m <= k
        s == CHOOSE k \in 1 .. e :
                 /\ \A m \in k .. e : url[m] # SLASH
                 /\ k = 1 \/ url[k - 1] = SLASH
    IN SubSeq(url, s, e)

Completed == { i \in Tasks : pc[i] = "done" }

\* C4: the output path is qiita_<id>.md with <id> the last non-empty segment
\* of the link's URL, and the output files are exactly those of the completed
\* links: one file per id, however many completed links share it.
C4_OneFilePerSourceId ==
    /\ DOMAIN files =
         { OUTPUT_DIR \o <<"qiita_">> \o LastNonEmptySegment(links[i].url) \o <<".md">> :
             i \in Completed }
    /\ \A p \in DOMAIN files : p = OUTPUT_DIR \o <<"qiita_">> \o files[p].source_id \o <<".md">>

\* two completed instances of the same URL, and a third of another URL with
\* the same id, have left one file
C4_Witness ==
    /\ \E i, j \in Completed : i # j /\ links[i].url = links[j].url
    /\ \E i, j \in Completed : links[i].url # links[j].url
    /\ Cardinality(DOMAIN files) = 1

\* C8: with zero links main prints exactly one message and returns without
\* error, having opened no client, admitted no fetch and written no file.
C8_NoLinksNoWork ==
    (links = <<>> /\ mainpc # "start") =>
        /\ mainpc = "done"
        /\ out = <<NoLinksMsg>>
        /\ files = <<>>
        /\ ~clientOpen
        /\ level = 0
        /\ pc = <<>>

C8_Witness == links = <<>> /\ mainpc = "done" /\ Len(out) = 1

\* C9: while an instance waits on a call of the translation backend, another
\* instance whose response has arrived, or for which the limiter has
\* capacity, is able to take its step.
C9_OthersStepDuringTranslation ==
    \A i, j \in Tasks :
        (i # j /\ pc[i] \in {"tr_title", "tr_body"}) =>
            /\ pc[j] = "fetching" => ENABLED (\E ok \in BOOLEAN : FetchReturn(j, ok))
            /\ (pc[j] = "waiting" /\ HasCapacity) => ENABLED Acquire(j)

(***************************************************************************)
(* translate_text.  A text is a sequence of tokens: a newline, a space, or *)
(* a run of n characters that are not whitespace.  tr marks a run the      *)
(* backend has translated.                                                 *)
(***************************************************************************)
MaxTokens == 5

NL == [k |-> "nl", n |-> 1, tr |-> FALSE]
SP == [k |-> "sp", n |-> 1, tr |-> FALSE]
W(n) == [k |-> "w", n |-> n, tr |-> FALSE]

Alphabet == { NL, SP, W(1), W(3498), W(3501) }

Texts == UNION { [1 .. n -> Alphabet] : n \in 0 .. MaxTokens }

IsSpace(t) == t.k \in {"nl", "sp"}

\* len(s)
RECURSIVE StrLen(_)
StrLen(s) == IF s = <<>> THEN 0 ELSE Head(s).n + StrLen(Tail(s))

RECURSIVE LStrip(_)
LStrip(s) == IF s # <<>> /\ IsSpace(Head(s)) THEN LStrip(Tail(s)) ELSE s

RECURSIVE RStrip(_)
RStrip(s) ==
    IF s # <<>> /\ IsSpace(s[Len(s)]) THEN RStrip(SubSeq(s, 1, Len(s) - 1)) ELSE s

\* str.strip()
Strip(s) == RStrip(LStrip(s))

\* str.split("\n\n"): the separators are found from the left, none overlapping
RECURSIVE SplitParaFrom(_, _)
SplitParaFrom(s, cur) ==
    IF s = <<>> THEN <<cur>>
    ELSE IF Len(s) >= 2 /\ s[1] = NL /\ s[2] = NL
         THEN <<cur>> \o SplitParaFrom(SubSeq(s, 3, Len(s)), <<>>)
         ELSE SplitParaFrom(Tail(s), Append(cur, Head(s)))

SplitPara(s) == SplitParaFrom(s, <<>>)

\* str.split("\n")
RECURSIVE SplitLinesFrom(_, _)
SplitLinesFrom(s, cur) ==
    IF s = <<>> THEN <<cur>>
    ELSE IF Head(s) = NL
         THEN <<cur>> \o SplitLinesFrom(Tail(s), <<>>)
         ELSE SplitLinesFrom(Tail(s), Append(cur, Head(s)))

SplitLines(s) == SplitLinesFrom(s, <<>>)

\* sep.join(parts)
RECURSIVE Join(_, _)
Join(parts, sep) ==
    IF parts = <<>> THEN <<>>
    ELSE IF Len(parts) = 1 THEN parts[1]
         ELSE parts[1] \o sep \o Join(Tail(parts), sep)

SAFETY_MARGIN == 3500

\* the test of line 108 with the line left out
Overflows_IgnoresLine(current_len, line) == current_len > SAFETY_MARGIN

\* current_len + len(line) + 1 > 3500
Overflows(current_len, line) == current_len + StrLen(line) + 1 > SAFETY_MARGIN

\* the loop over block.split("\n") and the closing of the last chunk
RECURSIVE Pack(_, _, _, _)
Pack(lines, chunkList, current, current_len) ==
    IF lines = <<>>
    THEN IF current # <<>> THEN Append(chunkList, Join(current, <<NL>>)) ELSE chunkList
    ELSE LET line == Head(lines)
         IN IF Overflows(current_len, line)
            THEN Pack(Tail(lines), Append(chunkList, Join(current, <<NL>>)),
                      <<line>>, StrLen(line))
            ELSE Pack(Tail(lines), chunkList,
                      Append(current, line), current_len + StrLen(line) + 1)

PackBlock(block) == Pack(SplitLines(block), <<>>, <<>>, 0)

\* what translator.translate returns when it does not raise
BackendTranslate(chunk) ==
    IF backend = "identity" THEN chunk
    ELSE [i \in DOMAIN chunk |->
            IF chunk[i].k = "w" THEN [chunk[i] EXCEPT !.tr = TRUE] ELSE chunk[i]]

\* the except clause appending nothing of the chunk
CallResult_NoFallback(chunk, ok) == IF ok THEN BackendTranslate(chunk) ELSE <<>>

\* the try/except around translator.translate(chunk)
CallResult(chunk, ok) == IF ok THEN BackendTranslate(chunk) ELSE chunk

InitTranslate ==
    /\ text \in Texts
    /\ backend \in {"identity", "google"}
    /\ tpc = "call"
    /\ paragraphs = <<>>
    /\ bi = 0
    /\ chunks = <<>>
    /\ ci = 0
    /\ translated_chunk_list = <<>>
    /\ translated_blocks = <<>>
    /\ result = <<>>
    /\ calls = <<>>
    /\ IdleP /\ IdleL

\* lines 92-97
Enter ==
    /\ tpc = "call"
    /\ IF Strip(text) = <<>>
       THEN /\ result' = text
            /\ tpc' = "returned"
            /\ UNCHANGED <<paragraphs, bi>>
       ELSE /\ paragraphs' = SplitPara(text)
            /\ bi' = 1
            /\ tpc' = "block"
            /\ UNCHANGED result
    /\ UNCHANGED <<text, backend, chunks, ci, translated_chunk_list, translated_blocks, calls>>
    /\ UNCHANGED <<pvars, lvars>>

\* lines 98-117: the next paragraph, stripped, is kept as empty or packed
Block ==
    /\ tpc = "block"
    /\ bi <= Len(paragraphs)
    /\ LET block == Strip(paragraphs[bi])
       IN IF block = <<>>
          THEN /\ translated_blocks' = Append(translated_blocks, <<>>)
               /\ bi' = bi + 1
               /\ UNCHANGED <<tpc, chunks, ci, translated_chunk_list>>
          ELSE /\ chunks' = PackBlock(block)
               /\ ci' = 1
               /\ translated_chunk_list' = <<>>
               /\ tpc' = "chunk"
               /\ UNCHANGED <<translated_blocks, bi>>
    /\ UNCHANGED <<text, backend, paragraphs, result, calls>>
    /\ UNCHANGED <<pvars, lvars>>

\* lines 118-122: one chunk is submitted; the backend answers or raises
TranslateChunk(ok) ==
    /\ tpc = "chunk"
    /\ ci <= Len(chunks)
    /\ backend = "identity" => ok
    /\ translated_chunk_list' = Append(translated_chunk_list, CallResult(chunks[ci], ok))
    /\ calls' = Append(calls, [block |-> bi, chunk |-> chunks[ci], ok |-> ok])
    /\ ci' = ci + 1
    /\ UNCHANGED <<text, backend, tpc, paragraphs, bi, chunks, translated_blocks, result>>
    /\ UNCHANGED <<pvars, lvars>>

\* line 123
EndBlock ==
    /\ tpc = "chunk"
    /\ ci > Len(chunks)
    /\ translated_blocks' = Append(translated_blocks, Join(translated_chunk_list, <<NL>>))
    /\ bi' = bi + 1
    /\ tpc' = "block"
    /\ UNCHANGED <<text, backend, paragraphs, chunks, ci, translated_chunk_list, result, calls>>
    /\ UNCHANGED <<pvars, lvars>>

\* line 124
Return ==
    /\ tpc = "block"
    /\ bi > Len(paragraphs)
    /\ result' = Join(translated_blocks, <<NL, NL>>)
    /\ tpc' = "returned"
    /\ UNCHANGED <<text, backend, paragraphs, bi, chunks, ci, translated_chunk_list,
                   translated_blocks, calls>>
    /\ UNCHANGED <<pvars, lvars>>

NextTranslate ==
    \/ Enter
    \/ Block
    \/ \E ok \in BOOLEAN : TranslateChunk(ok)
    \/ EndBlock
    \/ Return

SpecTranslate == InitTranslate /\ [][NextTranslate]_vars

(***************************************************************************)
(* Claims about translate_text (specification SpecTranslate).              *)
(***************************************************************************)

RECURSIVE Concat(_)
Concat(ss) == IF ss = <<>> THEN <<>> ELSE Head(ss) \o Concat(Tail(ss))

\* what the calls logged for paragraph b put into the result
OutputsOf(b) ==
    LET mine == SelectSeq(calls, LAMBDA c : c.block = b)
    IN [k \in DOMAIN mine |->
           IF mine[k].ok THEN BackendTranslate(mine[k].chunk) ELSE mine[k].chunk]

\* the lines of the text's paragraphs, in document order
DocumentLines ==
    LET paras == SplitPara(text)
        kept == SelectSeq([b \in DOMAIN paras |-> Strip(paras[b])], LAMBDA p : p # <<>>)
    IN Concat([b \in DOMAIN kept |-> SplitLines(kept[b])])

\* the lines of the chunks that were submitted, in the order of submission
SubmittedLines ==
    LET sent == SelectSeq(calls, LAMBDA c : c.chunk # <<>>)
    IN Concat([k \in DOMAIN sent |-> SplitLines(sent[k].chunk)])

\* C3: for a text that is not whitespace and any pattern of backend failures,
\* translate_text returns; the chunks went to the backend one at a time in
\* document order, and the result holds, at each chunk's position, the
\* backend's output if the call succeeded and the chunk itself if it failed.
C3_FailedChunksFallBack ==
    (tpc = "returned" /\ Strip(text) # <<>>) =>
        /\ SubmittedLines = DocumentLines
        /\ \A k \in 1 .. Len(calls) - 1 : calls[k].block <= calls[k + 1].block
        /\ result = Join([b \in 1 .. Len(SplitPara(text)) |-> Join(OutputsOf(b), <<NL>>)],
                         <<NL, NL>>)

\* a returned translation in which one chunk failed and another succeeded
C3_Witness ==
    /\ tpc = "returned"
    /\ \E k \in DOMAIN calls : ~calls[k].ok /\ calls[k].chunk # <<>>
    /\ \E k \in DOMAIN calls : calls[k].ok /\ calls[k].chunk # <<>>

\* C5: a chunk longer than 3500 characters, separators included, is a single
\* line (which then alone exceeds 3500).
C5_ChunkWithinMargin ==
    \A k \in DOMAIN chunks :
        StrLen(chunks[k]) > SAFETY_MARGIN => Len(SplitLines(chunks[k])) = 1

\* a paragraph packed into a chunk of several lines, closed because the next
\* line did not fit, and a chunk of one oversized line
C5_Witness ==
    /\ \E k \in DOMAIN chunks : Len(SplitLines(chunks[k])) > 1
    /\ \E k \in DOMAIN chunks : StrLen(chunks[k]) > SAFETY_MARGIN

\* C6: with the identity backend the result has the paragraphs of the input,
\* as many and in the same order, each non-empty one as its own lines joined
\* by single newlines and each empty one empty.
C6_IdentityRoundTrip ==
    (tpc = "returned" /\ backend = "identity" /\ Strip(text) # <<>>) =>
        LET inp == SplitPara(text)
            outp == SplitPara(result)
        IN /\ Len(outp) = Len(inp)
           /\ \A b \in DOMAIN inp :
                  outp[b] = Join(SplitLines(Strip(inp[b])), <<NL>>)

\* C10: every chunk submitted to the backend is non-empty: it holds at least
\* one line of its paragraph.
C10_NoEmptyChunk ==
    \A k \in DOMAIN calls : calls[k].chunk # <<>>

(***************************************************************************)
(* read_links_from_docs_readme.  A line of the document is a sequence of   *)
(* tokens: a space, the list marker "-", other text "x", or a link         *)
(* "[title](url)" that the regular expression of line 44 matches.          *)
(***************************************************************************)
MaxDocLines == 3
MaxIndent == 2

LinkTokens == { "[A](https://a)", "[B](http://b)" }

\* m.group(1)
TitleOf(tok) == IF tok = "[A](https://a)" THEN "A" ELSE "B"

\* m.group(2)
UrlOf(tok) == IF tok = "[A](https://a)" THEN <<"https:", SLASH, SLASH, "a">>
              ELSE <<"http:", SLASH, SLASH, "b">>

Spaces(n) == [i \in 1 .. n |-> " "]

LineBodies ==
    { <<"-", " ", "[A](https://a)">>,
      <<"-", " ", "[B](http://b)", " ">>,
      <<"-", " ", "x">>,
      <<"x", " ", "[A](https://a)">>,
      <<>> }

DocLines == { Spaces(n) \o b : n \in 0 .. MaxIndent, b \in LineBodies }

Docs == UNION { [1 .. n -> DocLines] : n \in 0 .. MaxDocLines }

RECURSIVE LStripSp(_)
LStripSp(s) == IF s # <<>> /\ Head(s) = " " THEN LStripSp(Tail(s)) ELSE s

RECURSIVE RStripSp(_)
RStripSp(s) ==
    IF s # <<>> /\ s[Len(s)] = " " THEN RStripSp(SubSeq(s, 1, Len(s) - 1)) ELSE s

\* re.search: the leftmost match's place in the line, 0 when there is none
SearchLink(line) ==
    LET hits == { k \in DOMAIN line : line[k] \in LinkTokens }
    IN IF hits = {} THEN 0 ELSE CHOOSE k \in hits : \A m \in hits : k <= m

InitLinks ==
    /\ doc \in Docs
    /\ li = 1
    /\ rlinks = <<>>
    /\ origin = <<>>
    /\ rpc = "reading"
    /\ IdleP /\ IdleT

\* one pass of the loop of lines 40-52; origin remembers the line of the
\* document each link came from
ReadLine ==
    /\ rpc = "reading"
    /\ li <= Len(doc)
    /\ LET line == RStripSp(LStripSp(doc[li]))
           m == SearchLink(line)
       IN IF line = <<>> \/ Head(line) # "-" \/ m = 0
          THEN UNCHANGED <<rlinks, origin>>
          ELSE LET indent == Len(line) - Len(LStripSp(line))
                   parent == IF indent > 0 /\ rlinks # <<>>
                             THEN rlinks[1].title ELSE "None"
               IN /\ rlinks' = Append(rlinks, LinkItem(TitleOf(line[m]), UrlOf(line[m]), parent))
                  /\ origin' = Append(origin, li)
    /\ li' = li + 1
    /\ UNCHANGED <<doc, rpc>>
    /\ UNCHANGED <<pvars, tvars>>

\* line 53
ReturnLinks ==
    /\ rpc = "reading"
    /\ li > Len(doc)
    /\ rpc' = "returned"
    /\ UNCHANGED <<doc, li, rlinks, origin>>
    /\ UNCHANGED <<pvars, tvars>>

NextLinks == ReadLine \/ ReturnLinks

SpecLinks == InitLinks /\ [][NextLinks]_vars

(***************************************************************************)
(* Claims about read_links_from_docs_readme (specification SpecLinks).     *)
(***************************************************************************)

\* the count of leading whitespace of a line as it stands in the document
LeadingWhitespace(docLine) == Len(docLine) - Len(LStripSp(docLine))

\* C7: a link line indented in the document, other than the first link, gets
\* the first link's title as its parent; a link line with no indentation gets
\* parent None.
C7_IndentedLinkHasFirstTitle ==
    rpc = "returned" =>
        \A k \in DOMAIN rlinks :
            LET lead == LeadingWhitespace(doc[origin[k]])
            IN /\ (lead > 0 /\ k > 1) => rlinks[k].parent = rlinks[1].title
               /\ lead = 0 => rlinks[k].parent = "None"

====
